---- MODULE Spec2Model ----
(***************************************************************************)
(* Carry-Connect: the delivery lifecycle and the review/rating subsystem.  *)
(*                                                                         *)
(* The model follows server/routes.ts (the request handlers) over the      *)
(* storage gateway of server/storage.ts.  The store is the three           *)
(* collections of MemStorage (usersData, deliveriesData, reviewsData);     *)
(* ids are handed out by the counters userId/deliveryId/reviewId, which    *)
(* start at 1 and are only ever incremented, and rows are never deleted,   *)
(* so a collection is a sequence and a row's id is its index.              *)
(*                                                                         *)
(*   Spec      every request handler runs to completion, one at a time     *)
(*   SpecConc  handlers interleave at their awaits: a handler reads, and   *)
(*             writes in a later step                                      *)
(***************************************************************************)
EXTENDS Integers, Sequences, FiniteSets, TLC

VARIABLES users, deliveries, reviews, resp, reqs, calls

vars == <<users, deliveries, reviews, resp, reqs, calls>>

store == [users |-> users, deliveries |-> deliveries, reviews |-> reviews]

(***************************************************************************)
(* Bounds of the model.                                                    *)
(***************************************************************************)
MaxDeliveries == 4
MaxReviews == 2
MaxInflight == 2
MaxCalls == 3

(***************************************************************************)
(* shared/schema.ts                                                        *)
(***************************************************************************)
deliveryStatusEnum == {"requested", "accepted", "picked", "delivered"}

\* A value of the request body's status field that is not in the enum.
StatusInputs == deliveryStatusEnum \cup {"cancelled"}

\* carrierId of a delivery nobody carries (undefined in MemStorage, NULL in
\* the database); user ids start at 1.
NoCarrier == 0

\* req.isAuthenticated() is false: no req.user.
Anonymous == 0

\* storage.getDeliveryById found nothing.
NoDelivery == [senderId |-> 0, carrierId |-> NoCarrier, status |-> "none",
               createdAt |-> 0]

\* insertReviewSchema: createInsertSchema(reviews) takes the rating from the
\* integer column, so it accepts every integer; the table has no range check.
insertReviewSchema(rating) == rating \in Int

\* Ratings of the request bodies: one of the five stars, and one past them.
RatingInputs == {4, 6}

\* Values of a JSON body's fields.  A number is held as twice its value, so
\* that 2.5 is a number (5) and is not an integer.
JsUndefined == [t |-> "undefined", n |-> 0, s |-> ""]
JsNumber(twice) == [t |-> "number", n |-> twice, s |-> ""]
JsString(str) == [t |-> "string", n |-> 0, s |-> str]

packageSizeEnum == {"small", "medium", "large"}

\* The checks of createDeliverySchema's fields.
zString(v) == v.t = "string"
zStringMin1(v) == v.t = "string" /\ v.s # ""
zNumberMin1(v) == v.t = "number" /\ v.n >= 2
zEnum(v, values) == v.t = "string" /\ v.s \in values

\* The issue zod raises for a field that fails its check: none if ok.
Issue(field, ok, v, message) ==
  IF ok THEN <<>>
  ELSE <<[path |-> <<field>>,
          message |-> IF v = JsUndefined THEN "Required" ELSE message]>>

\* createDeliverySchema.parse: the issues of a body, in the order of the
\* schema's fields.  senderId is set by the handler; id, carrierId, status
\* and createdAt are not fields of the schema.
createDeliverySchemaIssues(body) ==
  Issue("pickupLocation", zStringMin1(body.pickupLocation),
        body.pickupLocation, "Pickup location is required")
  \o Issue("dropLocation", zStringMin1(body.dropLocation),
           body.dropLocation, "Drop location is required")
  \o Issue("packageSize", zEnum(body.packageSize, packageSizeEnum),
           body.packageSize, "Invalid enum value")
  \o Issue("packageWeight", zNumberMin1(body.packageWeight),
           body.packageWeight, "Weight must be at least 1 gram")
  \o Issue("preferredDeliveryDate", zString(body.preferredDeliveryDate),
           body.preferredDeliveryDate, "Expected string")
  \o Issue("preferredDeliveryTime", zString(body.preferredDeliveryTime),
           body.preferredDeliveryTime, "Expected string")
  \o Issue("deliveryFee", zNumberMin1(body.deliveryFee),
           body.deliveryFee, "Fee must be at least 1 cent")

createDeliverySchemaParseBodyWins(body, actor) ==
  [senderId |-> IF body.senderId # 0 THEN body.senderId ELSE actor,
   carrierId |-> body.carrierId]

\* createDeliverySchema.parse({...req.body, senderId: req.user.id}): what a
\* body without issues parses to.  The keys the schema does not have are
\* stripped, so there is no carrierId.
createDeliverySchemaParse(body, actor) ==
  [senderId |-> actor, carrierId |-> NoCarrier]

\* formatZodError: path.join('.') of a one-field path is the field.
formatZodError(errors) ==
  [i \in DOMAIN errors |->
     [path |-> errors[i].path[1], message |-> errors[i].message]]

\* Request bodies of POST /api/deliveries.
EmptyBody ==
  [id |-> 0, senderId |-> 0, carrierId |-> NoCarrier, status |-> "none",
   pickupLocation |-> JsUndefined, dropLocation |-> JsUndefined,
   packageSize |-> JsUndefined, packageWeight |-> JsUndefined,
   preferredDeliveryDate |-> JsUndefined,
   preferredDeliveryTime |-> JsUndefined, deliveryFee |-> JsUndefined]

ValidBody ==
  [EmptyBody EXCEPT !.pickupLocation = JsString("Pune"),
                    !.dropLocation = JsString("Mumbai"),
                    !.packageSize = JsString("medium"),
                    !.packageWeight = JsNumber(7000),
                    !.preferredDeliveryDate = JsString("2023-06-22"),
                    !.preferredDeliveryTime = JsString("Before 6:00 PM"),
                    !.deliveryFee = JsNumber(60000)]

DeliveryBodies ==
  {ValidBody,
   [ValidBody EXCEPT !.id = 1, !.senderId = 2, !.carrierId = 2,
                     !.status = "delivered"],
   [ValidBody EXCEPT !.packageSize = JsString("huge")],
   [ValidBody EXCEPT !.packageWeight = JsNumber(0)],
   [ValidBody EXCEPT !.packageWeight = JsNumber(5)],
   [ValidBody EXCEPT !.deliveryFee = JsNumber(-2)],
   [ValidBody EXCEPT !.pickupLocation = JsString("")],
   [ValidBody EXCEPT !.dropLocation = JsString("")],
   [ValidBody EXCEPT !.preferredDeliveryDate = JsUndefined],
   [ValidBody EXCEPT !.preferredDeliveryTime = JsUndefined],
   [ValidBody EXCEPT !.packageWeight = JsString("heavy"),
                     !.dropLocation = JsUndefined]}

(***************************************************************************)
(* MemStorage: the gateway operations, as functions of the store.          *)
(***************************************************************************)
EmptyStore == [users |-> <<>>, deliveries |-> <<>>, reviews |-> <<>>]

createUser(st, role) ==
  [st EXCEPT !.users =
     Append(@, [role |-> role, rating |-> 0, totalReviews |-> 0])]

getDeliveryById(st, id) ==
  IF id \in DOMAIN st.deliveries THEN st.deliveries[id] ELSE NoDelivery

\* { ...delivery, id, status: "requested", createdAt }.  createdAt, the
\* instant of the insert, is held as the number of the insert: no handler
\* reads it.
createDelivery(st, delivery) ==
  [st EXCEPT !.deliveries =
     Append(@, [senderId |-> delivery.senderId,
                carrierId |-> delivery.carrierId, status |-> "requested",
                createdAt |-> Len(st.deliveries) + 1])]

updateDeliveryStatusSetsCarrier(st, id, status, carrierId) ==
  IF id \notin DOMAIN st.deliveries THEN st
  ELSE [st EXCEPT !.deliveries[id] =
          [@ EXCEPT !.status = status, !.carrierId = carrierId]]

\* carrierId is written only when it is truthy: ...(carrierId && { carrierId })
updateDeliveryStatus(st, id, status, carrierId) ==
  IF id \notin DOMAIN st.deliveries THEN st
  ELSE [st EXCEPT !.deliveries[id] =
          [@ EXCEPT !.status = status,
                    !.carrierId = IF carrierId # NoCarrier THEN carrierId ELSE @]]

getReviewByDeliveryAndReviewee(st, deliveryId, reviewerId) ==
  \E i \in DOMAIN st.reviews :
     /\ st.reviews[i].deliveryId = deliveryId
     /\ st.reviews[i].revieweeId = reviewerId

getReviewByDelivery(st, deliveryId, reviewerId) ==
  \E i \in DOMAIN st.reviews : st.reviews[i].deliveryId = deliveryId

getReviewByDeliveryAndReviewer(st, deliveryId, reviewerId) ==
  \E i \in DOMAIN st.reviews :
     /\ st.reviews[i].deliveryId = deliveryId
     /\ st.reviews[i].reviewerId = reviewerId

RECURSIVE SumRatings(_, _, _)
SumRatings(rs, userId, i) ==
  IF i = 0 THEN 0
  ELSE SumRatings(rs, userId, i - 1)
       + (IF rs[i].revieweeId = userId THEN rs[i].rating ELSE 0)

CountReviews(rs, userId) ==
  Cardinality({i \in DOMAIN rs : rs[i].revieweeId = userId})

MathFloor(total, n) == total \div n

\* Math.round(total / n) for total >= 0, n > 0: a half rounds up.
MathRound(total, n) == (2 * total + n) \div (2 * n)

\* The update without its where clause: every user gets the values.
updateUserRatingOfAll(st, userId) ==
  IF userId \notin DOMAIN st.users THEN st
  ELSE IF CountReviews(st.reviews, userId) = 0 THEN st
  ELSE [st EXCEPT !.users =
          [u \in DOMAIN st.users |->
             [st.users[u] EXCEPT
                !.rating =
                  MathRound(SumRatings(st.reviews, userId, Len(st.reviews)),
                            CountReviews(st.reviews, userId)),
                !.totalReviews = CountReviews(st.reviews, userId)]]]

updateUserRating(st, userId) ==
  IF userId \notin DOMAIN st.users THEN st
  ELSE IF CountReviews(st.reviews, userId) = 0 THEN st
  ELSE [st EXCEPT !.users[userId] =
          [@ EXCEPT !.rating =
                      MathRound(SumRatings(st.reviews, userId, Len(st.reviews)),
                                CountReviews(st.reviews, userId)),
                    !.totalReviews = CountReviews(st.reviews, userId)]]

createReview(st, review) ==
  updateUserRating([st EXCEPT !.reviews = Append(@, review)],
                   review.revieweeId)

\* seedData(): three users, three deliveries, delivery 1 picked and delivery 2
\* accepted by user 2, and one review of user 2 by user 1 on delivery 1.
seedData ==
  LET s1 == createUser(EmptyStore, "sender")
      s2 == createUser(s1, "carrier")
      s3 == createUser(s2, "both")
      s4 == createDelivery(s3, [senderId |-> 1, carrierId |-> NoCarrier])
      s5 == createDelivery(s4, [senderId |-> 3, carrierId |-> NoCarrier])
      s6 == createDelivery(s5, [senderId |-> 1, carrierId |-> NoCarrier])
      s7 == updateDeliveryStatus(s6, 1, "accepted", 2)
      s8 == updateDeliveryStatus(s7, 1, "picked", NoCarrier)
      s9 == updateDeliveryStatus(s8, 2, "accepted", 2)
  IN  createReview(s9, [deliveryId |-> 1, reviewerId |-> 1,
                        revieweeId |-> 2, rating |-> 5])

(***************************************************************************)
(* routes.ts: what a handler answers, from what it read.                   *)
(***************************************************************************)
\* const isCarrier = req.user!.id === delivery.carrierId
isCarrier(actor, delivery) == actor = delivery.carrierId

\* const isSender = req.user!.id === delivery.senderId
isSender(actor, delivery) == actor = delivery.senderId

AssociatedAnyone(actor, delivery) == TRUE

\* PATCH: the actor is the delivery's carrier or its sender (line 118).
Associated(actor, delivery) ==
  isCarrier(actor, delivery) \/ isSender(actor, delivery)

RequiredStatusSkip(status) ==
  CASE status = "accepted" -> "requested"
    [] status = "picked" -> "requested"
    [] status = "delivered" -> "accepted"

\* PATCH: the status a delivery must have to be moved to status (lines 124,
\* 131, 138); the rules name accepted, picked and delivered only.
RequiredStatus(status) ==
  CASE status = "accepted" -> "requested"
    [] status = "picked" -> "accepted"
    [] status = "delivered" -> "picked"

RoleAllowedSender(actor, delivery) ==
  isCarrier(actor, delivery) \/ isSender(actor, delivery)

\* PATCH: who may make a transition that has a rule (lines 127, 134, 141).
RoleAllowed(actor, delivery) == isCarrier(actor, delivery)

\* PATCH /api/deliveries/:id/status, lines 104-144: the answer decided from
\* the delivery read at line 109.  "OK" means the handler goes on to line 146.
StatusDecision(actor, delivery, status) ==
  IF status \notin deliveryStatusEnum THEN "InvalidStatus"
  ELSE IF delivery = NoDelivery THEN "NotFound"
  ELSE IF ~Associated(actor, delivery) THEN "NotAssociated"
  ELSE IF status \in {"accepted", "picked", "delivered"} THEN
         IF delivery.status # RequiredStatus(status) THEN "InvalidTransition"
         ELSE IF ~RoleAllowed(actor, delivery) THEN "OnlyCarrier"
         ELSE "OK"
  ELSE "OK"

ReviewableAnyStatus(delivery) == TRUE

\* POST /api/reviews: the delivery can be reviewed (line 192).
Reviewable(delivery) == delivery.status = "delivered"

ReviewDecisionSameParty(actor, delivery, revieweeId) ==
  IF delivery = NoDelivery THEN "NotFound"
  ELSE IF ~Reviewable(delivery) THEN "InvalidState"
  ELSE IF ~isCarrier(actor, delivery) /\ ~isSender(actor, delivery)
    THEN "NotParticipant"
  ELSE IF revieweeId # (IF isSender(actor, delivery) THEN delivery.senderId
                        ELSE delivery.carrierId) THEN "InvalidReviewee"
  ELSE "OK"

\* POST /api/reviews, lines 186-207: the answer decided from the delivery read
\* at line 187.  "OK" means the handler goes on to the existence check.
ReviewDecision(actor, delivery, revieweeId) ==
  IF delivery = NoDelivery THEN "NotFound"
  ELSE IF ~Reviewable(delivery) THEN "InvalidState"
  ELSE IF ~isCarrier(actor, delivery) /\ ~isSender(actor, delivery)
    THEN "NotParticipant"
  ELSE IF revieweeId # (IF isSender(actor, delivery) THEN delivery.carrierId
                        ELSE delivery.senderId) THEN "InvalidReviewee"
  ELSE "OK"

\* The error kinds of the design, by the answers of routes.ts.
Forbidden == {"NotAssociated", "OnlyCarrier", "NotParticipant"}
Failures == {"Unauthorized", "InvalidStatus", "NotFound", "InvalidTransition",
             "InvalidState", "InvalidReviewee", "ValidationError", "Conflict"}
              \cup Forbidden

(***************************************************************************)
(* The last response sent, with the request it answers.                    *)
(***************************************************************************)
NoResp == [op |-> "none", actor |-> 0, id |-> 0, status |-> "none",
           revieweeId |-> 0, rating |-> 0, snap |-> NoDelivery,
           body |-> EmptyBody, errors |-> <<>>, result |-> "none"]

AuthResp(op) == [NoResp EXCEPT !.op = op, !.result = "Unauthorized"]

CreateResp(actor, body, errors, result) ==
  [NoResp EXCEPT !.op = "create", !.actor = actor, !.body = body,
                 !.errors = errors, !.result = result]

StatusResp(actor, id, status, snap, result) ==
  [NoResp EXCEPT !.op = "status", !.actor = actor, !.id = id,
                 !.status = status, !.snap = snap, !.result = result]

ReviewResp(actor, id, revieweeId, rating, snap, result) ==
  [NoResp EXCEPT !.op = "review", !.actor = actor, !.id = id,
                 !.revieweeId = revieweeId, !.rating = rating,
                 !.snap = snap, !.result = result]

\* A handler that is not running.  A suspended one holds its request and the
\* delivery it has read (snap).
Idle == [pc |-> "idle", actor |-> 0, id |-> 0, status |-> "none",
         revieweeId |-> 0, rating |-> 0, snap |-> NoDelivery]

Ops == {"create", "status", "review"}

SetStore(st) ==
  /\ users' = st.users
  /\ deliveries' = st.deliveries
  /\ reviews' = st.reviews

Init ==
  /\ users = seedData.users
  /\ deliveries = seedData.deliveries
  /\ reviews = seedData.reviews
  /\ resp = NoResp
  /\ reqs = [s \in 1..MaxInflight |-> Idle]
  /\ calls = 0

(***************************************************************************)
(* The handlers.  A handler starts when no response is being sent, and the *)
(* response it produces is sent (Sent) before the next step.               *)
(***************************************************************************)
isAuthenticatedAlways(actor) == TRUE

\* req.isAuthenticated(): the request has a session user.
isAuthenticated(actor) == actor # Anonymous

\* Who a request comes from: a user, or nobody.
Actors == {Anonymous} \cup DOMAIN users

\* isAuthenticated: no session, 401 before the handler runs.
Unauthorized(op) ==
  /\ resp = NoResp
  /\ resp' = AuthResp(op)
  /\ UNCHANGED <<users, deliveries, reviews>>

\* POST /api/deliveries
PostDelivery(actor, body) ==
  LET issues == createDeliverySchemaIssues(body)
  IN  /\ resp = NoResp
      /\ Len(deliveries) < MaxDeliveries
      /\ IF issues # <<>> THEN
           /\ resp' = CreateResp(actor, body, formatZodError(issues),
                                 "ValidationError")
           /\ UNCHANGED <<users, deliveries, reviews>>
         ELSE
           /\ resp' = CreateResp(actor, body, <<>>, "Created")
           /\ SetStore(createDelivery(store,
                          createDeliverySchemaParse(body, actor)))

PatchStatusWritesAnyway(actor, id, status) ==
  LET delivery == getDeliveryById(store, id)
      result == StatusDecision(actor, delivery, status)
  IN  /\ resp = NoResp
      /\ resp' = StatusResp(actor, id, status, delivery, result)
      /\ IF result \notin {"InvalidStatus", "NotFound", "NotAssociated"}
         THEN SetStore(updateDeliveryStatus(store, id, status,
                          IF status = "accepted" THEN actor ELSE NoCarrier))
         ELSE UNCHANGED <<users, deliveries, reviews>>

\* PATCH /api/deliveries/:id/status, run to completion.
PatchStatus(actor, id, status) ==
  LET delivery == getDeliveryById(store, id)
      result == StatusDecision(actor, delivery, status)
  IN  /\ resp = NoResp
      /\ resp' = StatusResp(actor, id, status, delivery, result)
      /\ IF result = "OK"
         THEN SetStore(updateDeliveryStatus(store, id, status,
                          IF status = "accepted" THEN actor ELSE NoCarrier))
         ELSE UNCHANGED <<users, deliveries, reviews>>

\* POST /api/reviews with a body insertReviewSchema rejects.
PostReviewInvalid(actor) ==
  /\ resp = NoResp
  /\ resp' = ReviewResp(actor, 0, 0, 0, NoDelivery, "ValidationError")
  /\ UNCHANGED <<users, deliveries, reviews>>

\* req.body of POST /api/reviews.  The client's body may name a reviewer:
\* the bodies sent name the reviewee.
ReviewBody(id, revieweeId, rating) ==
  [deliveryId |-> id, reviewerId |-> revieweeId, revieweeId |-> revieweeId,
   rating |-> rating]

insertReviewSchemaParseBodyWins(body, actor) ==
  [deliveryId |-> body.deliveryId, reviewerId |-> body.reviewerId,
   revieweeId |-> body.revieweeId, rating |-> body.rating]

\* insertReviewSchema.parse({ ...req.body, reviewerId: req.user!.id })
insertReviewSchemaParse(body, actor) ==
  [deliveryId |-> body.deliveryId, reviewerId |-> actor,
   revieweeId |-> body.revieweeId, rating |-> body.rating]

\* POST /api/reviews, run to completion.
PostReview(actor, id, revieweeId, rating) ==
  LET delivery == getDeliveryById(store, id)
      decision == ReviewDecision(actor, delivery, revieweeId)
      result == IF ~insertReviewSchema(rating) THEN "ValidationError"
                ELSE IF decision # "OK" THEN decision
                ELSE IF getReviewByDeliveryAndReviewer(store, id, actor)
                  THEN "Conflict"
                ELSE "Created"
  IN  /\ resp = NoResp
      /\ result = "Created" => Len(reviews) < MaxReviews
      /\ resp' = ReviewResp(actor, id, revieweeId, rating, delivery, result)
      /\ IF result = "Created"
         THEN SetStore(createReview(store,
                         insertReviewSchemaParse(
                           ReviewBody(id, revieweeId, rating), actor)))
         ELSE UNCHANGED <<users, deliveries, reviews>>

\* res.json(...): the response has left.
Sent ==
  /\ resp # NoResp
  /\ resp' = NoResp
  /\ UNCHANGED <<users, deliveries, reviews, reqs, calls>>

(***************************************************************************)
(* Spec: one request at a time.                                            *)
(***************************************************************************)
\* app.post/app.patch(path, isAuthenticated, handler): the handler runs
\* only behind the middleware.
Route(op, actor, handler) ==
  IF isAuthenticated(actor) THEN handler ELSE Unauthorized(op)

Next ==
  \/ \E actor \in Actors, body \in DeliveryBodies :
        Route("create", actor, PostDelivery(actor, body))
          /\ UNCHANGED <<reqs, calls>>
  \/ \E actor \in Actors, id \in 1..(Len(deliveries) + 1),
        status \in StatusInputs :
        Route("status", actor, PatchStatus(actor, id, status))
          /\ UNCHANGED <<reqs, calls>>
  \/ \E actor \in Actors :
        Route("review", actor, PostReviewInvalid(actor))
          /\ UNCHANGED <<reqs, calls>>
  \/ \E actor \in Actors, id \in 1..(Len(deliveries) + 1),
        revieweeId \in DOMAIN users, rating \in RatingInputs :
        Route("review", actor, PostReview(actor, id, revieweeId, rating))
          /\ UNCHANGED <<reqs, calls>>
  \/ Sent

Spec == Init /\ [][Next]_vars

(***************************************************************************)
(* SpecConc: up to MaxInflight handlers at once, MaxCalls requests in all. *)
(* A handler is suspended at the await of a storage call.  What it does    *)
(* between a read and its next storage call depends on nothing but the     *)
(* value read, so the step of the read decides it: a handler that answers  *)
(* without another storage call answers in that step, and one that goes on *)
(* stays suspended until the step of its next storage call.                *)
(***************************************************************************)
Slots == 1..MaxInflight

Start(s) ==
  /\ resp = NoResp
  /\ reqs[s].pc = "idle"
  /\ calls < MaxCalls
  /\ calls' = calls + 1

\* PATCH /api/deliveries/:id/status: storage.getDeliveryById and the checks
\* on the delivery read.
StatusRead(s, actor, id, status) ==
  LET delivery == getDeliveryById(store, id)
      result == StatusDecision(actor, delivery, status)
  IN  /\ Start(s)
      /\ IF result = "OK"
         THEN /\ reqs' = [reqs EXCEPT ![s] =
                   [Idle EXCEPT !.pc = "status_write", !.actor = actor,
                                !.id = id, !.status = status,
                                !.snap = delivery]]
              /\ resp' = NoResp
         ELSE /\ resp' = StatusResp(actor, id, status, delivery, result)
              /\ UNCHANGED reqs
      /\ UNCHANGED <<users, deliveries, reviews>>

\* ... and its storage.updateDeliveryStatus call.
StatusWrite(s) ==
  LET r == reqs[s]
  IN  /\ resp = NoResp
      /\ r.pc = "status_write"
      /\ SetStore(updateDeliveryStatus(store, r.id, r.status,
                     IF r.status = "accepted" THEN r.actor ELSE NoCarrier))
      /\ resp' = StatusResp(r.actor, r.id, r.status, r.snap, "OK")
      /\ reqs' = [reqs EXCEPT ![s] = Idle]
      /\ UNCHANGED calls

\* POST /api/reviews: storage.getDeliveryById and the checks on the delivery
\* read.
ReviewRead(s, actor, id, revieweeId, rating) ==
  LET delivery == getDeliveryById(store, id)
      result == IF ~insertReviewSchema(rating) THEN "ValidationError"
                ELSE ReviewDecision(actor, delivery, revieweeId)
  IN  /\ Start(s)
      /\ IF result = "OK"
         THEN /\ reqs' = [reqs EXCEPT ![s] =
                   [Idle EXCEPT !.pc = "review_exists", !.actor = actor,
                                !.id = id, !.revieweeId = revieweeId,
                                !.rating = rating, !.snap = delivery]]
              /\ resp' = NoResp
         ELSE /\ resp' = ReviewResp(actor, id, revieweeId, rating, delivery,
                                    result)
              /\ UNCHANGED reqs
      /\ UNCHANGED <<users, deliveries, reviews>>

\* ... its storage.getReviewByDeliveryAndReviewer call and the check of what
\* it found ...
ReviewExists(s) ==
  LET r == reqs[s]
  IN  /\ resp = NoResp
      /\ r.pc = "review_exists"
      /\ IF getReviewByDeliveryAndReviewer(store, r.id, r.actor)
         THEN /\ resp' = ReviewResp(r.actor, r.id, r.revieweeId, r.rating,
                                    r.snap, "Conflict")
              /\ reqs' = [reqs EXCEPT ![s] = Idle]
         ELSE /\ resp' = NoResp
              /\ reqs' = [reqs EXCEPT ![s].pc = "review_create"]
      /\ UNCHANGED <<users, deliveries, reviews, calls>>

\* ... and its storage.createReview call.
ReviewCreate(s) ==
  LET r == reqs[s]
  IN  /\ resp = NoResp
      /\ r.pc = "review_create"
      /\ SetStore(createReview(store,
                    insertReviewSchemaParse(
                      ReviewBody(r.id, r.revieweeId, r.rating), r.actor)))
      /\ resp' = ReviewResp(r.actor, r.id, r.revieweeId, r.rating, r.snap,
                            "Created")
      /\ reqs' = [reqs EXCEPT ![s] = Idle]
      /\ UNCHANGED calls

\* A handler with no read before its one storage call runs in one step.
Called(A) == A /\ calls < MaxCalls /\ calls' = calls + 1 /\ UNCHANGED reqs

NextConc ==
  \/ \E actor \in Actors, body \in DeliveryBodies :
        Called(Route("create", actor, PostDelivery(actor, body)))
  \/ \E actor \in Actors :
        Called(Route("review", actor, PostReviewInvalid(actor)))
  \/ \E s \in Slots, actor \in Actors, id \in 1..(Len(deliveries) + 1),
        status \in StatusInputs :
        IF isAuthenticated(actor) THEN StatusRead(s, actor, id, status)
        ELSE Called(Unauthorized("status"))
  \/ \E s \in Slots : StatusWrite(s)
  \/ \E s \in Slots, actor \in Actors, id \in 1..(Len(deliveries) + 1),
        revieweeId \in DOMAIN users, rating \in RatingInputs :
        IF isAuthenticated(actor)
        THEN ReviewRead(s, actor, id, revieweeId, rating)
        ELSE Called(Unauthorized("review"))
  \/ \E s \in Slots : ReviewExists(s)
  \/ \E s \in Slots : ReviewCreate(s)
  \/ Sent

SpecConc == Init /\ [][NextConc]_vars

(***************************************************************************)
(* SpecDb: DatabaseStorage.createReview, called at the gateway.  users,    *)
(* deliveries and reviews are the committed rows of the three tables.  A   *)
(* call is a transaction of three statements: the insert of the review,    *)
(* the select of the average and the number of the reviewee's ratings, and *)
(* the update of the reviewee's row.  db.transaction is given no isolation *)
(* level, so each statement sees the rows committed when it runs and the   *)
(* transaction's own insert, an update waits for another transaction's     *)
(* uncommitted update of the same row, and the rows written become         *)
(* visible to the others at the commit.                                    *)
(***************************************************************************)
\* users.rating is a nullable column without a default: NULL.
NoRating == -1

NoReview == [deliveryId |-> 0, reviewerId |-> 0, revieweeId |-> 0, rating |-> 0]

\* A transaction that is not running.  A running one holds the row it has
\* inserted and, after its select, the sum and the number of the ratings
\* the select saw.
TxIdle == [pc |-> "idle", review |-> NoReview, total |-> 0, count |-> 0]

\* DatabaseStorage.createUser: insert of the InsertUser fields only.
dbCreateUser(st, role) ==
  [st EXCEPT !.users =
     Append(@, [role |-> role, rating |-> NoRating, totalReviews |-> 0])]

\* The tables after three registrations and two deliveries, of users 1 and
\* 3, carried by user 2.
InitialRows ==
  LET s3 == dbCreateUser(dbCreateUser(dbCreateUser(EmptyStore, "sender"),
                                      "carrier"), "both")
      s4 == createDelivery(s3, [senderId |-> 1, carrierId |-> NoCarrier])
      s5 == createDelivery(s4, [senderId |-> 3, carrierId |-> NoCarrier])
  IN  updateDeliveryStatus(updateDeliveryStatus(s5, 1, "delivered", 2),
                           2, "delivered", 2)

InitDb ==
  /\ users = InitialRows.users
  /\ deliveries = InitialRows.deliveries
  /\ reviews = InitialRows.reviews
  /\ resp = NoResp
  /\ reqs = [s \in 1..MaxInflight |-> TxIdle]
  /\ calls = 0

\* tx.insert(reviews).values(review).  The calls made are for different
\* pairs of a delivery and a reviewer.
TxInsert(s, review) ==
  /\ reqs[s].pc = "idle"
  /\ \A i \in DOMAIN reviews :
        <<reviews[i].deliveryId, reviews[i].reviewerId>>
          # <<review.deliveryId, review.reviewerId>>
  /\ \A t \in DOMAIN reqs :
        <<reqs[t].review.deliveryId, reqs[t].review.reviewerId>>
          # <<review.deliveryId, review.reviewerId>>
  /\ calls < MaxCalls
  /\ calls' = calls + 1
  /\ reqs' = [reqs EXCEPT ![s] = [TxIdle EXCEPT !.pc = "inserted",
                                                !.review = review]]
  /\ UNCHANGED <<users, deliveries, reviews, resp>>

\* updateUserRating: tx.select of AVG(rating) and the row count where
\* revieweeId is the user, over the committed reviews and the transaction's
\* own.
TxSelect(s) ==
  LET visible == Append(reviews, reqs[s].review)
      userId == reqs[s].review.revieweeId
  IN  /\ reqs[s].pc = "inserted"
      /\ reqs' = [reqs EXCEPT ![s].pc = "selected",
                              ![s].total = SumRatings(visible, userId,
                                                      Len(visible)),
                              ![s].count = CountReviews(visible, userId)]
      /\ UNCHANGED <<users, deliveries, reviews, resp, calls>>

\* updateUserRating: tx.update(users).set({rating, totalReviews}); the row is
\* locked until the commit.
TxUpdate(s) ==
  /\ reqs[s].pc = "selected"
  /\ \A t \in DOMAIN reqs :
        reqs[t].pc = "updated"
          => reqs[t].review.revieweeId # reqs[s].review.revieweeId
  /\ reqs' = [reqs EXCEPT ![s].pc = "updated"]
  /\ UNCHANGED <<users, deliveries, reviews, resp, calls>>

\* The end of db.transaction: the inserted review and the updated user
\* are committed.
TxCommit(s) ==
  LET r == reqs[s]
  IN  /\ r.pc = "updated"
      /\ reviews' = Append(reviews, r.review)
      /\ users' = [users EXCEPT ![r.review.revieweeId] =
                     [@ EXCEPT !.rating = MathRound(r.total, r.count),
                               !.totalReviews = r.count]]
      /\ reqs' = [reqs EXCEPT ![s] = TxIdle]
      /\ UNCHANGED <<deliveries, resp, calls>>

\* The reviews a gateway call is made with: of a delivery, by one of its two
\* parties, of the other.
ReviewInputs ==
  {review \in [deliveryId : DOMAIN deliveries, reviewerId : DOMAIN users,
                revieweeId : DOMAIN users, rating : RatingInputs] :
     LET d == deliveries[review.deliveryId]
     IN  /\ review.reviewerId \in {d.senderId, d.carrierId}
         /\ review.revieweeId \in {d.senderId, d.carrierId}
         /\ review.reviewerId # review.revieweeId}

NextDb ==
  \/ \E s \in 1..MaxInflight, review \in ReviewInputs : TxInsert(s, review)
  \/ \E s \in 1..MaxInflight : TxSelect(s)
  \/ \E s \in 1..MaxInflight : TxUpdate(s)
  \/ \E s \in 1..MaxInflight : TxCommit(s)

SpecDb == InitDb /\ [][NextDb]_vars

(***************************************************************************)
(* SpecFresh: the same requests on the store the application is wired to   *)
(* (storage = new DatabaseStorage()) after three registrations and before  *)
(* any delivery: every delivery in it comes from createDelivery.           *)
(***************************************************************************)
InitFresh ==
  /\ users = dbCreateUser(dbCreateUser(dbCreateUser(EmptyStore, "sender"),
                                       "carrier"), "both").users
  /\ deliveries = <<>>
  /\ reviews = <<>>
  /\ resp = NoResp
  /\ reqs = [s \in 1..MaxInflight |-> Idle]
  /\ calls = 0

SpecFresh == InitFresh /\ [][Next]_vars

(***************************************************************************)
(* SpecList: the read operations of both gateways, over rows that carry    *)
(* the fields the listings read.  The rows are those of MemStorage; each   *)
(* request is answered by both implementations from the same contents.     *)
(***************************************************************************)
MaxListed == 2

\* A value a response leaves out (undefined; res.json drops the key).
undefined == [undefined |-> TRUE]

\* The users seedData() registers.
InsertUsers ==
  << [username |-> "john_sender", password |-> "password123",
      fullName |-> "John Sender", role |-> "sender"],
     [username |-> "alice_carrier", password |-> "password123",
      fullName |-> "Alice Carrier", role |-> "carrier"],
     [username |-> "bob_both", password |-> "password123",
      fullName |-> "Bob Both", role |-> "both"] >>

\* const user: User = { ...insertUser, id, rating: 0, totalReviews: 0 }
createUserRow(st, insertUser) ==
  [st EXCEPT !.users =
     Append(@, [username |-> insertUser.username,
                password |-> insertUser.password,
                fullName |-> insertUser.fullName, role |-> insertUser.role,
                rating |-> 0, totalReviews |-> 0])]

\* { ...delivery, id, status: "requested", createdAt: now.toISOString() }
createDeliveryRow(st, delivery, now) ==
  [st EXCEPT !.deliveries =
     Append(@, [senderId |-> delivery.senderId, carrierId |-> NoCarrier,
                status |-> "requested",
                pickupLocation |-> delivery.pickupLocation,
                dropLocation |-> delivery.dropLocation,
                packageSize |-> delivery.packageSize, createdAt |-> now])]

\* { ...review, id, createdAt: now.toISOString() }, then updateUserRating.
createReviewRow(st, review, now) ==
  createReview(st, [deliveryId |-> review.deliveryId,
                    reviewerId |-> review.reviewerId,
                    revieweeId |-> review.revieweeId,
                    rating |-> review.rating, createdAt |-> now])

\* Array.from(map.values()): the ids in insertion order.
Values(rows) == [i \in DOMAIN rows |-> i]

\* rows.sort((a, b) => dateB - dateA) sorts in descending createdAt;
\* Array.prototype.sort is stable, so rows of one instant keep their order.
RECURSIVE sortOldestFirst(_, _)
sortOldestFirst(rows, ids) ==
  IF ids = <<>> THEN <<>>
  ELSE LET rest == sortOldestFirst(rows, Tail(ids))
           k == Cardinality({i \in DOMAIN rest :
                  rows[rest[i]].createdAt < rows[Head(ids)].createdAt})
       IN  SubSeq(rest, 1, k) \o <<Head(ids)>> \o SubSeq(rest, k + 1, Len(rest))

RECURSIVE sortNewestFirst(_, _)
sortNewestFirst(rows, ids) ==
  IF ids = <<>> THEN <<>>
  ELSE LET rest == sortNewestFirst(rows, Tail(ids))
           k == Cardinality({i \in DOMAIN rest :
                  rows[rest[i]].createdAt > rows[Head(ids)].createdAt})
       IN  SubSeq(rest, 1, k) \o <<Head(ids)>> \o SubSeq(rest, k + 1, Len(rest))

\* No filter supplied: if (filters.status) is false for a missing and for
\* an empty value alike.
NoFilters == [status |-> "", pickupLocation |-> "", dropLocation |-> "",
              packageSize |-> ""]

\* if (filters.f) rows = rows.filter(d => d.f === filters.f), for each f.
filterDeliveries(rows, filters) ==
  SelectSeq(Values(rows),
    LAMBDA id :
      /\ filters.status # "" => rows[id].status = filters.status
      /\ filters.pickupLocation # ""
           => rows[id].pickupLocation = filters.pickupLocation
      /\ filters.dropLocation # ""
           => rows[id].dropLocation = filters.dropLocation
      /\ filters.packageSize # ""
           => rows[id].packageSize = filters.packageSize)

safeUserWithPassword(st, userId) ==
  IF userId \notin DOMAIN st.users THEN undefined
  ELSE [id |-> userId, username |-> st.users[userId].username,
        password |-> st.users[userId].password,
        fullName |-> st.users[userId].fullName,
        rating |-> st.users[userId].rating,
        totalReviews |-> st.users[userId].totalReviews,
        role |-> st.users[userId].role]

\* senderSafe, carrierSafe: six fields of the user, undefined for no user.
safeUser(st, userId) ==
  IF userId \notin DOMAIN st.users THEN undefined
  ELSE [id |-> userId, username |-> st.users[userId].username,
        fullName |-> st.users[userId].fullName,
        rating |-> st.users[userId].rating,
        totalReviews |-> st.users[userId].totalReviews,
        role |-> st.users[userId].role]

\* { ...delivery, sender, carrier }
DeliveryWithUser(st, id, sender, carrier) ==
  [id |-> id, senderId |-> st.deliveries[id].senderId,
   carrierId |-> st.deliveries[id].carrierId,
   status |-> st.deliveries[id].status,
   pickupLocation |-> st.deliveries[id].pickupLocation,
   dropLocation |-> st.deliveries[id].dropLocation,
   packageSize |-> st.deliveries[id].packageSize,
   createdAt |-> st.deliveries[id].createdAt,
   sender |-> sender, carrier |-> carrier]

\* deliveries.map(...): sender and, for a delivery that has one, carrier.
withSafeUsers(st, ids) ==
  [i \in DOMAIN ids |->
     DeliveryWithUser(st, ids[i], safeUser(st, st.deliveries[ids[i]].senderId),
       IF st.deliveries[ids[i]].carrierId # NoCarrier
       THEN safeUser(st, st.deliveries[ids[i]].carrierId) ELSE undefined)]

getDeliveriesWithFilters(st, filters) ==
  withSafeUsers(st, sortNewestFirst(st.deliveries,
                                    filterDeliveries(st.deliveries, filters)))

getSenderDeliveries(st, userId) ==
  withSafeUsers(st, sortNewestFirst(st.deliveries,
    SelectSeq(Values(st.deliveries),
              LAMBDA id : st.deliveries[id].senderId = userId)))

\* carrier = usersData.get(userId), the carrier of every row selected.
getCarrierDeliveries(st, userId) ==
  withSafeUsers(st, sortNewestFirst(st.deliveries,
    SelectSeq(Values(st.deliveries),
              LAMBDA id : st.deliveries[id].carrierId = userId)))

\* { ...review, reviewer }
ReviewWithReviewer(st, id) ==
  [id |-> id, deliveryId |-> st.reviews[id].deliveryId,
   reviewerId |-> st.reviews[id].reviewerId,
   revieweeId |-> st.reviews[id].revieweeId,
   rating |-> st.reviews[id].rating, createdAt |-> st.reviews[id].createdAt,
   reviewer |->
     IF st.reviews[id].reviewerId \notin DOMAIN st.users THEN undefined
     ELSE [id |-> st.reviews[id].reviewerId,
           username |-> st.users[st.reviews[id].reviewerId].username,
           fullName |-> st.users[st.reviews[id].reviewerId].fullName]]

getUserReviews(st, userId) ==
  LET ids == sortNewestFirst(st.reviews,
               SelectSeq(Values(st.reviews),
                         LAMBDA id : st.reviews[id].revieweeId = userId))
  IN  [i \in DOMAIN ids |-> ReviewWithReviewer(st, ids[i])]

\* const { password, ...profile } = user; return profile
getUserProfile(st, userId) ==
  IF userId \notin DOMAIN st.users THEN undefined
  ELSE [id |-> userId, username |-> st.users[userId].username,
        fullName |-> st.users[userId].fullName,
        role |-> st.users[userId].role,
        rating |-> st.users[userId].rating,
        totalReviews |-> st.users[userId].totalReviews]

(***************************************************************************)
(* DatabaseStorage: the same reads as queries.  ORDER BY created_at DESC   *)
(* leaves the order of rows of one instant open, so a query has a set of   *)
(* possible results.                                                       *)
(***************************************************************************)
\* .orderBy(desc(createdAt)) over the rows S selected.
orderByDesc(rows, S) ==
  {o \in [1..Cardinality(S) -> S] :
     /\ \A i, j \in DOMAIN o : i # j => o[i] # o[j]
     /\ \A i, j \in DOMAIN o :
          i < j => rows[o[i]].createdAt >= rows[o[j]].createdAt}

\* The columns selected from the joined users row.
dbJoinedUser(st, userId) ==
  [id |-> userId, username |-> st.users[userId].username,
   fullName |-> st.users[userId].fullName,
   rating |-> st.users[userId].rating,
   totalReviews |-> st.users[userId].totalReviews]

\* results.map(({ delivery, sender }) => ({ ...delivery, sender }))
DeliveryWithSender(st, id, sender) ==
  [id |-> id, senderId |-> st.deliveries[id].senderId,
   carrierId |-> st.deliveries[id].carrierId,
   status |-> st.deliveries[id].status,
   pickupLocation |-> st.deliveries[id].pickupLocation,
   dropLocation |-> st.deliveries[id].dropLocation,
   packageSize |-> st.deliveries[id].packageSize,
   createdAt |-> st.deliveries[id].createdAt,
   sender |-> sender]

\* if (filters.f) conditions.push(eq(deliveries.f, filters.f)), for each f;
\* where(and(...conditions)).
dbWhere(rows, filters) ==
  {id \in DOMAIN rows :
     /\ filters.status # "" => rows[id].status = filters.status
     /\ filters.pickupLocation # ""
          => rows[id].pickupLocation = filters.pickupLocation
     /\ filters.dropLocation # ""
          => rows[id].dropLocation = filters.dropLocation
     /\ filters.packageSize # ""
          => rows[id].packageSize = filters.packageSize}

dbGetDeliveriesWithFilters(st, filters) ==
  {[i \in DOMAIN o |->
      DeliveryWithSender(st, o[i], dbJoinedUser(st, st.deliveries[o[i]].senderId))] :
     o \in orderByDesc(st.deliveries, dbWhere(st.deliveries, filters))}

\* sender: { id: userId }, carrier: carrier?.id ? carrier : undefined
dbGetSenderDeliveries(st, userId) ==
  {[i \in DOMAIN o |->
      DeliveryWithUser(st, o[i], [id |-> userId],
        IF st.deliveries[o[i]].carrierId # NoCarrier
        THEN dbJoinedUser(st, st.deliveries[o[i]].carrierId) ELSE undefined)] :
     o \in orderByDesc(st.deliveries,
             {id \in DOMAIN st.deliveries : st.deliveries[id].senderId = userId})}

\* sender as joined, carrier: { id: userId }
dbGetCarrierDeliveries(st, userId) ==
  {[i \in DOMAIN o |->
      DeliveryWithUser(st, o[i],
        dbJoinedUser(st, st.deliveries[o[i]].senderId), [id |-> userId])] :
     o \in orderByDesc(st.deliveries,
             {id \in DOMAIN st.deliveries : st.deliveries[id].carrierId = userId})}

dbGetUserReviews(st, userId) ==
  {[i \in DOMAIN o |-> ReviewWithReviewer(st, o[i])] :
     o \in orderByDesc(st.reviews,
             {id \in DOMAIN st.reviews : st.reviews[id].revieweeId = userId})}

\* select id, username, fullName, role, rating, totalReviews where id = userId
dbGetUserProfile(st, userId) ==
  IF userId \notin DOMAIN st.users THEN undefined
  ELSE [id |-> userId, username |-> st.users[userId].username,
        fullName |-> st.users[userId].fullName,
        role |-> st.users[userId].role,
        rating |-> st.users[userId].rating,
        totalReviews |-> st.users[userId].totalReviews]

(***************************************************************************)
(* The requests of SpecList.                                               *)
(***************************************************************************)
\* The answer to a read: what MemStorage returns (mem) and what
\* DatabaseStorage returns (db) from the same contents.
ListResp(op, filters, userId, mem, db) ==
  [op |-> op, result |-> "OK", filters |-> filters, userId |-> userId,
   mem |-> mem, db |-> db]

\* new Date(): the instant of the last insert, or a later one.
Now(rows) ==
  IF rows = <<>> THEN {0, 1}
  ELSE {rows[Len(rows)].createdAt, rows[Len(rows)].createdAt + 1}

\* The deliveries created: three that the filters tell apart by place and
\* size, by the two users who send.
InsertDeliveries ==
  {[senderId |-> 1, pickupLocation |-> "Pune", dropLocation |-> "Mumbai",
    packageSize |-> "small"],
   [senderId |-> 1, pickupLocation |-> "Pune", dropLocation |-> "Mumbai",
    packageSize |-> "large"],
   [senderId |-> 3, pickupLocation |-> "Mumbai", dropLocation |-> "Pune",
    packageSize |-> "small"]}

\* The query strings of GET /api/deliveries.  A status or packageSize filter
\* is a value of the column's enum.
FilterInputs ==
  {NoFilters,
   [NoFilters EXCEPT !.status = "accepted"],
   [NoFilters EXCEPT !.pickupLocation = "Pune"],
   [NoFilters EXCEPT !.packageSize = "small"],
   [NoFilters EXCEPT !.dropLocation = "Bangalore"],
   [status |-> "requested", pickupLocation |-> "Pune",
    dropLocation |-> "Mumbai", packageSize |-> "small"]}

InitList ==
  /\ users = createUserRow(createUserRow(createUserRow(EmptyStore,
                InsertUsers[1]), InsertUsers[2]), InsertUsers[3]).users
  /\ deliveries = <<>>
  /\ reviews = <<>>
  /\ resp = NoResp
  /\ reqs = [s \in 1..MaxInflight |-> Idle]
  /\ calls = 0

ListCreateDelivery(delivery, now) ==
  /\ resp = NoResp
  /\ Len(deliveries) < MaxListed
  /\ SetStore(createDeliveryRow(store, delivery, now))
  /\ UNCHANGED resp

\* storage.updateDeliveryStatus(id, "accepted", req.user!.id)
ListAccept(id, carrierId) ==
  /\ resp = NoResp
  /\ deliveries[id].status = "requested"
  /\ SetStore(updateDeliveryStatus(store, id, "accepted", carrierId))
  /\ UNCHANGED resp

ListCreateReview(review, now) ==
  /\ resp = NoResp
  /\ Len(reviews) < MaxReviews
  /\ deliveries[review.deliveryId].carrierId # NoCarrier
  /\ ~getReviewByDeliveryAndReviewer(store, review.deliveryId,
                                     review.reviewerId)
  /\ SetStore(createReviewRow(store, review, now))
  /\ UNCHANGED resp

\* GET /api/deliveries
GetDeliveries(filters) ==
  /\ resp = NoResp
  /\ \E db \in dbGetDeliveriesWithFilters(store, filters) :
       resp' = ListResp("listDeliveries", filters, 0,
                        getDeliveriesWithFilters(store, filters), db)
  /\ UNCHANGED <<users, deliveries, reviews>>

\* GET /api/user/deliveries/sender
GetSenderDeliveries(actor) ==
  /\ resp = NoResp
  /\ \E db \in dbGetSenderDeliveries(store, actor) :
       resp' = ListResp("listForSender", NoFilters, actor,
                        getSenderDeliveries(store, actor), db)
  /\ UNCHANGED <<users, deliveries, reviews>>

\* GET /api/user/deliveries/carrier
GetCarrierDeliveries(actor) ==
  /\ resp = NoResp
  /\ \E db \in dbGetCarrierDeliveries(store, actor) :
       resp' = ListResp("listForCarrier", NoFilters, actor,
                        getCarrierDeliveries(store, actor), db)
  /\ UNCHANGED <<users, deliveries, reviews>>

\* GET /api/users/:id/reviews
GetUserReviews(userId) ==
  /\ resp = NoResp
  /\ \E db \in dbGetUserReviews(store, userId) :
       resp' = ListResp("listReviewsFor", NoFilters, userId,
                        getUserReviews(store, userId), db)
  /\ UNCHANGED <<users, deliveries, reviews>>

\* GET /api/users/:id/profile: 404 when the gateway returns no user (either
\* gateway returns none exactly for an id that no user has).
GetUserProfile(userId) ==
  /\ resp = NoResp
  /\ resp' = [ListResp("profile", NoFilters, userId,
                       getUserProfile(store, userId),
                       dbGetUserProfile(store, userId))
               EXCEPT !.result = IF getUserProfile(store, userId) = undefined
                                 THEN "NotFound" ELSE "OK"]
  /\ UNCHANGED <<users, deliveries, reviews>>

NextList ==
  \/ \E delivery \in InsertDeliveries, now \in Now(deliveries) :
        ListCreateDelivery(delivery, now) /\ UNCHANGED <<reqs, calls>>
  \/ \E id \in DOMAIN deliveries :
        ListAccept(id, 2) /\ UNCHANGED <<reqs, calls>>
  \/ \E id \in DOMAIN deliveries, now \in Now(reviews) :
        ListCreateReview([deliveryId |-> id,
                          reviewerId |-> deliveries[id].senderId,
                          revieweeId |-> deliveries[id].carrierId,
                          rating |-> 4], now)
          /\ UNCHANGED <<reqs, calls>>
  \/ \E filters \in FilterInputs :
        GetDeliveries(filters) /\ UNCHANGED <<reqs, calls>>
  \/ \E actor \in Actors :
        Route("listForSender", actor, GetSenderDeliveries(actor))
          /\ UNCHANGED <<reqs, calls>>
  \/ \E actor \in Actors :
        Route("listForCarrier", actor, GetCarrierDeliveries(actor))
          /\ UNCHANGED <<reqs, calls>>
  \/ \E userId \in DOMAIN users :
        GetUserReviews(userId) /\ UNCHANGED <<reqs, calls>>
  \/ \E userId \in DOMAIN users \cup {Len(users) + 1} :
        GetUserProfile(userId) /\ UNCHANGED <<reqs, calls>>
  \/ Sent

SpecList == InitList /\ [][NextList]_vars

(***************************************************************************)
(* The lifecycle claims.  In Spec a response in resp is the answer of the  *)
(* handler that ran in the step just taken: resp.snap is the delivery it   *)
(* read and the store is the store it left.                                *)
(***************************************************************************)
IsStatusResp == resp.op = "status"

Found == resp.snap # NoDelivery

\* C1: in every reachable state, a delivery's carrierId is set if and only if
\* its status is not requested.
C1_CarrierIffNotRequested ==
  \A d \in DOMAIN deliveries :
     (deliveries[d].carrierId # NoCarrier) <=> (deliveries[d].status # "requested")

NextStage(from, to) ==
  \/ from = "requested" /\ to = "accepted"
  \/ from = "accepted" /\ to = "picked"
  \/ from = "picked" /\ to = "delivered"

\* C2: every change of a delivery's status is a move to the next stage of
\* requested -> accepted -> picked -> delivered: never back, never past a
\* stage, never out of delivered.
C2_StatusOnlyAdvances ==
  [][\A d \in DOMAIN deliveries :
       \/ deliveries'[d].status = deliveries[d].status
       \/ NextStage(deliveries[d].status, deliveries'[d].status)]_vars

\* C3: a call to accept a requested delivery by a user who is not its sender
\* succeeds, and leaves the delivery accepted with that user as its carrier.
C3_NonSenderAccepts ==
  (/\ IsStatusResp
   /\ resp.status = "accepted"
   /\ Found
   /\ resp.snap.status = "requested"
   /\ resp.actor # resp.snap.senderId)
  => /\ resp.result = "OK"
     /\ deliveries[resp.id].status = "accepted"
     /\ deliveries[resp.id].carrierId = resp.actor

\* A handler suspended before the write of an accept of delivery id, which
\* it read as requested.
AcceptRunning(s, id) ==
  /\ reqs[s].pc = "status_write"
  /\ reqs[s].status = "accepted"
  /\ reqs[s].id = id
  /\ reqs[s].snap.status = "requested"

\* C4: of the accept calls by different users, none the sender, that run at
\* once on one requested delivery, one succeeds and every other one fails
\* with InvalidTransition: a call answered while another is still suspended
\* before its write has succeeded or has failed with InvalidTransition, and
\* if it succeeded it is the carrier.
C4_OneAcceptWins ==
  \A s \in Slots :
    (/\ IsStatusResp
     /\ resp.status = "accepted"
     /\ Found
     /\ resp.snap.status = "requested"
     /\ AcceptRunning(s, resp.id)
     /\ resp.actor # reqs[s].actor
     /\ resp.actor # resp.snap.senderId
     /\ reqs[s].actor # resp.snap.senderId)
    => \/ resp.result = "InvalidTransition"
       \/ /\ resp.result = "OK"
          /\ deliveries[resp.id].carrierId = resp.actor

\* C5: the sender's call to accept their own requested delivery fails with
\* Forbidden and leaves the delivery's status and carrierId as they were.
C5_SenderCannotAccept ==
  (/\ IsStatusResp
   /\ resp.status = "accepted"
   /\ Found
   /\ resp.snap.status = "requested"
   /\ resp.actor = resp.snap.senderId)
  => /\ resp.result \in Forbidden
     /\ deliveries[resp.id] = resp.snap

C5_Witness ==
  /\ IsStatusResp
  /\ resp.status = "accepted"
  /\ resp.snap.status = "requested"
  /\ resp.actor = resp.snap.senderId
  /\ resp.result = "OnlyCarrier"

\* C6: a call to mark a delivery picked (delivered) succeeds exactly when the
\* delivery read is accepted (picked) and the caller is its carrier; when it
\* succeeds the delivery has the target status, and a call by a sender who
\* is not the carrier never succeeds.
C6_PickedDeliveredByCarrier ==
  (IsStatusResp /\ resp.status \in {"picked", "delivered"})
  => LET source == IF resp.status = "picked" THEN "accepted" ELSE "picked"
     IN  /\ resp.result = "OK"
             <=> (Found /\ resp.snap.status = source
                        /\ resp.actor = resp.snap.carrierId)
         /\ resp.result = "OK" => deliveries[resp.id].status = resp.status
         /\ (resp.actor = resp.snap.senderId
               /\ resp.actor # resp.snap.carrierId) => resp.result # "OK"

C6_Witness ==
  /\ IsStatusResp
  /\ resp.status = "delivered"
  /\ resp.snap.status = "picked"
  /\ resp.result = "OK"
  /\ deliveries[resp.id].status = "delivered"

C8_InvalidTransitionForbidden ==
  /\ (/\ IsStatusResp
      /\ Found
      /\ resp.status \in {"accepted", "picked", "delivered"}
      /\ resp.actor \in {resp.snap.senderId, resp.snap.carrierId})
     => LET source == CASE resp.status = "accepted" -> "requested"
                        [] resp.status = "picked" -> "accepted"
                        [] resp.status = "delivered" -> "picked"
        IN  /\ resp.snap.status # source => resp.result = "InvalidTransition"
            /\ (resp.snap.status = source /\ resp.actor # resp.snap.carrierId)
               => resp.result = "OnlyCarrier"
  /\ (IsStatusResp /\ Found /\ resp.result \in Failures)
     => deliveries[resp.id] = resp.snap

C8_Witness ==
  /\ IsStatusResp
  /\ resp.status = "delivered"
  /\ resp.snap.status = "accepted"
  /\ resp.actor = resp.snap.carrierId
  /\ resp.result = "InvalidTransition"
  /\ deliveries[resp.id].status = "accepted"

(***************************************************************************)
(* The review claims.                                                      *)
(***************************************************************************)
\* C9: a review is accepted only for a delivery that is delivered and from
\* its sender or carrier; for a delivery in another status the call fails
\* with InvalidState, from anybody else it fails with Forbidden, and a call
\* that fails so persists no review and changes no rating or totalReviews.
C9_ReviewOnlyDeliveredParticipant ==
  [][(resp'.op = "review" /\ resp'.actor # Anonymous
        /\ resp'.result # "ValidationError")
     => /\ resp'.result = "Created" => resp'.id \in DOMAIN deliveries
        /\ resp'.id \in DOMAIN deliveries
           => LET d == deliveries[resp'.id]
                  participant == resp'.actor \in {d.senderId, d.carrierId}
              IN  /\ resp'.result = "Created"
                     => d.status = "delivered" /\ participant
                  /\ d.status # "delivered"
                     => /\ resp'.result = "InvalidState"
                        /\ UNCHANGED <<users, reviews>>
                  /\ (d.status = "delivered" /\ ~participant)
                     => /\ resp'.result = "NotParticipant"
                        /\ UNCHANGED <<users, reviews>>]_vars

C9_Witness ==
  /\ resp.op = "review"
  /\ resp.result = "Created"
  /\ resp.snap.status = "delivered"
  /\ \E i \in DOMAIN reviews :
        reviews[i].deliveryId = resp.id /\ reviews[i].reviewerId = resp.actor

\* C10: in every reachable state there is at most one persisted review for
\* each pair of a delivery and a reviewer.
C10_OneReviewPerPair ==
  \A i, j \in DOMAIN reviews :
     (/\ reviews[i].deliveryId = reviews[j].deliveryId
      /\ reviews[i].reviewerId = reviews[j].reviewerId) => i = j

\* The review of delivery id by reviewerId is among the reviews rs.
Reviewed(rs, id, reviewerId) ==
  \E i \in DOMAIN rs : rs[i].deliveryId = id /\ rs[i].reviewerId = reviewerId

\* The other party of delivery d for the participant actor.
OtherParty(actor, d) == IF actor = d.senderId THEN d.carrierId ELSE d.senderId

\* The request answered by resp' is a review of a delivered delivery by one
\* of its two parties, naming the other party.
ReviewRequestPasses ==
  /\ resp'.op = "review"
  /\ resp'.id \in DOMAIN deliveries
  /\ deliveries[resp'.id].status = "delivered"
  /\ resp'.actor \in {deliveries[resp'.id].senderId,
                       deliveries[resp'.id].carrierId}
  /\ resp'.revieweeId = OtherParty(resp'.actor, deliveries[resp'.id])

\* C11: a review call by a reviewer who has already a persisted review of
\* the same delivery persists no review and leaves every rating and
\* totalReviews as it was, and when the call passes the checks on the
\* delivery it fails with Conflict.
C11_DuplicateReviewConflicts ==
  [][(resp'.op = "review" /\ Reviewed(reviews, resp'.id, resp'.actor))
     => /\ resp'.result \in Failures
        /\ UNCHANGED <<users, reviews>>
        /\ ReviewRequestPasses => resp'.result = "Conflict"]_vars

C11_Witness ==
  /\ resp.op = "review"
  /\ resp.result = "Conflict"
  /\ resp.snap.status = "delivered"
  /\ Reviewed(reviews, resp.id, resp.actor)

\* C12 as stated: once the sender's review of a delivered delivery is
\* persisted, a review of that delivery by its carrier fails with Conflict
\* and is not persisted.
C12_CarrierReviewConflicts ==
  [][(/\ ReviewRequestPasses
      /\ resp'.actor = deliveries[resp'.id].carrierId
      /\ Reviewed(reviews, resp'.id, deliveries[resp'.id].senderId))
     => resp'.result = "Conflict" /\ reviews' = reviews]_vars

\* C12, amended: once the sender's review of a delivered delivery is
\* persisted, a review of that delivery by its carrier fails with Conflict
\* exactly when the carrier has reviewed it already; the carrier's first
\* review is persisted, and a second one by the same reviewer never is.
C12_SecondReviewBySameReviewer ==
  [][(/\ ReviewRequestPasses
      /\ resp'.actor = deliveries[resp'.id].carrierId
      /\ Reviewed(reviews, resp'.id, deliveries[resp'.id].senderId))
     => IF Reviewed(reviews, resp'.id, resp'.actor)
        THEN resp'.result = "Conflict" /\ reviews' = reviews
        ELSE /\ resp'.result = "Created"
             /\ reviews' = Append(reviews,
                   [deliveryId |-> resp'.id, reviewerId |-> resp'.actor,
                    revieweeId |-> resp'.revieweeId,
                    rating |-> resp'.rating])]_vars

C12_Witness ==
  /\ resp.op = "review"
  /\ resp.result = "Created"
  /\ resp.actor = resp.snap.carrierId
  /\ Reviewed(reviews, resp.id, resp.snap.senderId)
  /\ Reviewed(reviews, resp.id, resp.actor)

\* C13: every persisted review is by the sender or the carrier of its
\* delivery and names the other of the two; a review call by one of them on
\* a delivered delivery that names anybody else fails with the 400 "Invalid
\* reviewee" (a ValidationError), and no call naming anybody else persists
\* a review.
C13_RevieweeIsOtherParty ==
  /\ [](\A i \in DOMAIN reviews :
          LET d == deliveries[reviews[i].deliveryId]
          IN  /\ reviews[i].reviewerId \in {d.senderId, d.carrierId}
              /\ reviews[i].revieweeId = OtherParty(reviews[i].reviewerId, d)
              /\ reviews[i].revieweeId # reviews[i].reviewerId)
  /\ [][(/\ resp'.op = "review"
          /\ resp'.id \in DOMAIN deliveries
          /\ resp'.revieweeId
                # OtherParty(resp'.actor, deliveries[resp'.id]))
         => /\ resp'.result \in Failures
            /\ UNCHANGED <<users, reviews>>
            /\ (/\ deliveries[resp'.id].status = "delivered"
                /\ resp'.actor \in {deliveries[resp'.id].senderId,
                                     deliveries[resp'.id].carrierId})
               => resp'.result = "InvalidReviewee"]_vars

C13_Witness ==
  /\ resp.op = "review"
  /\ resp.result = "InvalidReviewee"
  /\ resp.snap.status = "delivered"
  /\ resp.actor \in {resp.snap.senderId, resp.snap.carrierId}

\* C14: a review call whose rating is not an integer from 1 to 5 fails with
\* ValidationError and persists nothing, and every persisted review has a
\* rating from 1 to 5.
C14_RatingOneToFive ==
  /\ \A i \in DOMAIN reviews : reviews[i].rating \in 1..5
  /\ (resp.op = "review" /\ resp.actor # Anonymous /\ resp.rating \notin 1..5)
     => resp.result = "ValidationError"

(***************************************************************************)
(* The rating claims.                                                      *)
(***************************************************************************)
\* The reviews a user has received, and the sum of their ratings.
Received(u) == {i \in DOMAIN reviews : reviews[i].revieweeId = u}

RECURSIVE RatingSum(_)
RatingSum(S) ==
  IF S = {} THEN 0
  ELSE LET i == CHOOSE x \in S : TRUE
       IN  reviews[i].rating + RatingSum(S \ {i})

\* r is the mean of n ratings of sum t, rounded to the nearest integer with
\* a half rounded up: r - 1/2 <= t/n < r + 1/2.
IsRoundedMean(r, t, n) == 2 * n * r <= 2 * t + n /\ 2 * t + n < 2 * n * (r + 1)

\* C15: with review calls run one at a time, a user who has received N >= 1
\* reviews has totalReviews = N and a rating that is the mean of the N
\* ratings rounded with a half up; a user who has received none has the
\* rating and totalReviews of registration.
C15_RatingIsRoundedMean ==
  \A u \in DOMAIN users :
     LET n == Cardinality(Received(u))
     IN  IF n = 0
         THEN users[u].rating = 0 /\ users[u].totalReviews = 0
         ELSE /\ users[u].totalReviews = n
              /\ IsRoundedMean(users[u].rating, RatingSum(Received(u)), n)

C15_Witness ==
  /\ resp.op = "review"
  /\ resp.result = "Created"
  /\ Cardinality(Received(resp.revieweeId)) = 2
  /\ RatingSum(Received(resp.revieweeId)) = 9
  /\ users[resp.revieweeId].rating = 5
  /\ users[resp.revieweeId].totalReviews = 2

\* C16: the insert of a review and the recomputation of its reviewee are one
\* atomic unit: whatever review calls run at once, the committed rows never
\* show a user whose totalReviews differs from the number of the reviews
\* naming them, or whose rating is not the rounded mean of those reviews.
C16_InsertAndRecomputeAtomic ==
  \A u \in DOMAIN users :
     /\ users[u].totalReviews = Cardinality(Received(u))
     /\ Received(u) # {}
        => IsRoundedMean(users[u].rating, RatingSum(Received(u)),
                         Cardinality(Received(u)))

\* C17: in every reachable state every user's rating is unset or an integer
\* from 0 to 5, whatever review requests have been made.
C17_RatingZeroToFive ==
  \A u \in DOMAIN users :
     users[u].rating = NoRating \/ users[u].rating \in 0..5

(***************************************************************************)
(* The claims on creating a delivery and on authentication.                *)
(***************************************************************************)
\* C18: a successful call to create a delivery adds one delivery, under a
\* fresh id, with status requested, no carrier and the caller as sender,
\* whatever id, status, carrierId or senderId the body carries, and changes
\* no other delivery, no user and no review.
C18_CreatedDeliveryIsRequested ==
  [][(resp'.op = "create" /\ resp'.result = "Created")
     => /\ resp'.actor \in DOMAIN users
        /\ deliveries' = Append(deliveries,
                                [senderId |-> resp'.actor,
                                 carrierId |-> NoCarrier,
                                 status |-> "requested",
                                 createdAt |-> Len(deliveries) + 1])
        /\ UNCHANGED <<users, reviews>>]_vars

C18_Witness ==
  /\ resp.op = "create"
  /\ resp.result = "Created"
  /\ resp.body.carrierId # NoCarrier
  /\ resp.body.status = "delivered"
  /\ resp.body.senderId \notin {0, resp.actor}
  /\ deliveries[Len(deliveries)]
       = [senderId |-> resp.actor, carrierId |-> NoCarrier,
          status |-> "requested", createdAt |-> Len(deliveries)]

\* v is a number that is a positive integer.
PositiveInteger(v) == v.t = "number" /\ v.n > 0 /\ v.n % 2 = 0

\* The constraints on the body of a delivery.
MeetsConstraints(body) ==
  /\ body.packageSize \in {JsString("small"), JsString("medium"),
                           JsString("large")}
  /\ PositiveInteger(body.packageWeight)
  /\ PositiveInteger(body.deliveryFee)
  /\ body.pickupLocation.t = "string" /\ body.pickupLocation.s # ""
  /\ body.dropLocation.t = "string" /\ body.dropLocation.s # ""
  /\ body.preferredDeliveryDate # JsUndefined
  /\ body.preferredDeliveryTime # JsUndefined

\* C19: a call to create a delivery whose package size is not small, medium
\* or large, whose weight or fee is not a positive integer, whose pickup or
\* drop location is empty, or whose date or time window is absent, fails
\* with ValidationError, reported as a list of pairs of a field path and a
\* message, and creates no delivery.
C19_InvalidBodyRejected ==
  [][(/\ resp'.op = "create"
      /\ resp'.actor # Anonymous
      /\ ~MeetsConstraints(resp'.body))
     => /\ resp'.result = "ValidationError"
        /\ resp'.errors # <<>>
        /\ \A i \in DOMAIN resp'.errors :
              /\ DOMAIN resp'.errors[i] = {"path", "message"}
              /\ resp'.errors[i].path \in DOMAIN EmptyBody
        /\ UNCHANGED <<users, deliveries, reviews>>]_vars

\* C20: a call to create a delivery, to change a status or to review that
\* comes without an authenticated user is answered Unauthorized and changes
\* no user, no delivery and no review.
C20_UnauthenticatedRejected ==
  [][(resp'.op \in Ops /\ resp'.actor = Anonymous)
     => /\ resp'.result = "Unauthorized"
        /\ UNCHANGED <<users, deliveries, reviews>>]_vars

C20_Witness ==
  /\ resp.op \in {"create", "review"}
  /\ resp.actor = Anonymous
  /\ resp.result = "Unauthorized"

(***************************************************************************)
(* The claims about the reads.  In SpecList a response in resp is the      *)
(* answer both gateways give to the request it holds.                      *)
(***************************************************************************)
ListOps == {"listDeliveries", "listForSender", "listForCarrier",
            "listReviewsFor", "profile"}

IsListResp == resp.op \in ListOps /\ resp.result = "OK"

\* What MemStorage answers to the request in resp from the contents st.
MemAnswer(st) ==
  CASE resp.op = "listDeliveries" -> getDeliveriesWithFilters(st, resp.filters)
    [] resp.op = "listForSender" -> getSenderDeliveries(st, resp.userId)
    [] resp.op = "listForCarrier" -> getCarrierDeliveries(st, resp.userId)
    [] resp.op = "listReviewsFor" -> getUserReviews(st, resp.userId)
    [] resp.op = "profile" -> getUserProfile(st, resp.userId)

\* What DatabaseStorage may answer to it.
DbAnswers(st) ==
  CASE resp.op = "listDeliveries" ->
         dbGetDeliveriesWithFilters(st, resp.filters)
    [] resp.op = "listForSender" -> dbGetSenderDeliveries(st, resp.userId)
    [] resp.op = "listForCarrier" -> dbGetCarrierDeliveries(st, resp.userId)
    [] resp.op = "listReviewsFor" -> dbGetUserReviews(st, resp.userId)
    [] resp.op = "profile" -> {dbGetUserProfile(st, resp.userId)}

Passwords == {"password123", "hunter2"}

\* The store with the users' passwords replaced by pw.
WithPasswords(pw) ==
  [store EXCEPT !.users =
     [u \in DOMAIN users |-> [users[u] EXCEPT !.password = pw[u]]]]

\* C21: the answer to listDeliveries, listForSender, listForCarrier,
\* listReviewsFor or the user profile does not depend on any password: both
\* gateways give, from a store that differs from this one only in users'
\* passwords, the answers they give from this one.
C21_AnswersIgnorePasswords ==
  IsListResp =>
    \A pw \in [DOMAIN users -> Passwords] :
       /\ MemAnswer(WithPasswords(pw)) = resp.mem
       /\ DbAnswers(WithPasswords(pw)) = DbAnswers(store)
       /\ resp.db \in DbAnswers(WithPasswords(pw))

\* A listing that embeds the sender and the carrier of a delivery.
C21_Witness ==
  /\ IsListResp
  /\ resp.op = "listDeliveries"
  /\ \E i \in DOMAIN resp.mem :
       /\ resp.mem[i].sender # undefined
       /\ resp.mem[i].carrier # undefined
  /\ resp.db # <<>>

PublicFields == {"id", "username", "fullName", "rating", "totalReviews",
                 "role"}

\* p holds the six public fields of user u, and nothing else.
IsPublicProfile(p, u) ==
  /\ DOMAIN p = PublicFields
  /\ p.id = u
  /\ p.username = users[u].username
  /\ p.fullName = users[u].fullName
  /\ p.rating = users[u].rating
  /\ p.totalReviews = users[u].totalReviews
  /\ p.role = users[u].role

\* The rows of a listing embed public profiles only.
EmbedsPublicProfiles(rows) ==
  \A i \in DOMAIN rows :
     /\ IsPublicProfile(rows[i].sender, rows[i].senderId)
     /\ ("carrier" \in DOMAIN rows[i] /\ rows[i].carrier # undefined)
          => IsPublicProfile(rows[i].carrier, rows[i].carrierId)

\* C22: every sender or carrier object embedded in an answer to
\* listDeliveries carries exactly the fields id, username, fullName, rating,
\* totalReviews and role of that user, whichever gateway answers.
C22_EmbeddedProfilesExact ==
  (IsListResp /\ resp.op = "listDeliveries")
    => EmbedsPublicProfiles(resp.mem) /\ EmbedsPublicProfiles(resp.db)

FilterNames == {"status", "pickupLocation", "dropLocation", "packageSize"}

\* The stored delivery id equals every filter supplied.
Matches(id, filters) ==
  \A f \in FilterNames : filters[f] # "" => deliveries[id][f] = filters[f]

\* rows are the stored deliveries matching the filters, each once, a newer
\* one before an older one.
ListedNewestFirst(rows, filters) ==
  /\ {rows[i].id : i \in DOMAIN rows}
       = {id \in DOMAIN deliveries : Matches(id, filters)}
  /\ \A i, j \in DOMAIN rows : i # j => rows[i].id # rows[j].id
  /\ \A i \in DOMAIN rows :
       /\ rows[i].id \in DOMAIN deliveries
       /\ \A f \in FilterNames \cup {"senderId", "carrierId", "createdAt"} :
            rows[i][f] = deliveries[rows[i].id][f]
  /\ \A i, j \in DOMAIN rows :
       i < j => rows[i].createdAt >= rows[j].createdAt

Rows(answer) == {answer[i] : i \in DOMAIN answer}

\* C24: MemStorage and DatabaseStorage are interchangeable: asked the same
\* read from the same contents they return the same profile, and the same
\* rows with the same embedded sender and carrier profiles (rows of one
\* instant in whatever order).
C24_GatewaysInterchangeable ==
  IsListResp =>
    IF resp.op = "profile" THEN resp.mem = resp.db
    ELSE Rows(resp.mem) = Rows(resp.db)

(***************************************************************************)
(* The frame claims.                                                       *)
(***************************************************************************)
\* C25: in every step, every delivery stays, with its senderId and its
\* createdAt, and with its carrierId once it has one; and a
\* transitionStatus call changes nothing but the status, and on accept the
\* carrierId, of the delivery it names.
C25_DeliveryFrame ==
  [][/\ Len(deliveries') >= Len(deliveries)
     /\ \A id \in DOMAIN deliveries :
          /\ deliveries'[id].senderId = deliveries[id].senderId
          /\ deliveries'[id].createdAt = deliveries[id].createdAt
          /\ deliveries[id].carrierId # NoCarrier
               => deliveries'[id].carrierId = deliveries[id].carrierId
     /\ (resp = NoResp /\ resp'.op = "status")
          => /\ UNCHANGED <<users, reviews>>
             /\ Len(deliveries') = Len(deliveries)
             /\ \A id \in DOMAIN deliveries :
                  /\ id # resp'.id => deliveries'[id] = deliveries[id]
                  /\ resp'.status # "accepted"
                       => deliveries'[id].carrierId = deliveries[id].carrierId
                  /\ DOMAIN deliveries'[id] = DOMAIN deliveries[id]]_vars

\* An accept that went through, on a delivery that keeps its carrier.
C25_Witness ==
  /\ resp.op = "status"
  /\ resp.result = "OK"
  /\ resp.status = "accepted"
  /\ resp.snap.carrierId = resp.actor
  /\ deliveries[resp.id].carrierId = resp.actor
  /\ deliveries[resp.id].status = "accepted"

\* C26: a submitReview call that succeeds adds one review and changes only
\* the rating and totalReviews of the reviewee; every earlier review, every
\* delivery and every other user stays.  createDelivery and transitionStatus
\* change no user, and no step changes or removes a review.
C26_ReviewFrame ==
  [][/\ Len(reviews') >= Len(reviews)
     /\ \A i \in DOMAIN reviews : reviews'[i] = reviews[i]
     /\ (resp = NoResp /\ resp'.op \in {"create", "status"})
          => UNCHANGED <<users, reviews>>
     /\ (resp = NoResp /\ resp'.op = "review")
          => IF resp'.result = "Created"
             THEN /\ Len(reviews') = Len(reviews) + 1
                  /\ UNCHANGED deliveries
                  /\ DOMAIN users' = DOMAIN users
                  /\ \A u \in DOMAIN users :
                       /\ u # resp'.revieweeId => users'[u] = users[u]
                       /\ users'[u].role = users[u].role
             ELSE UNCHANGED <<users, deliveries, reviews>>]_vars

\* A review that changed the reviewee's rating and count, with other
\* reviewed users in the store.
C26_Witness ==
  /\ resp.op = "review"
  /\ resp.result = "Created"
  /\ resp.revieweeId # 2
  /\ users[2].totalReviews > 0
  /\ users[resp.revieweeId].totalReviews > 0
  /\ users[resp.revieweeId].rating # users[2].rating

(***************************************************************************)
(* The claims that join the two engines, and the claims read off the code. *)
(***************************************************************************)
\* C27: in every reachable state, every persisted review refers to a
\* delivery whose status is delivered.
C27_ReviewsOnDelivered ==
  \A i \in DOMAIN reviews :
     /\ reviews[i].deliveryId \in DOMAIN deliveries
     /\ deliveries[reviews[i].deliveryId].status = "delivered"

Stage(status) ==
  CASE status = "requested" -> 0
    [] status = "accepted" -> 1
    [] status = "picked" -> 2
    [] status = "delivered" -> 3

\* C29: with transitionStatus requests on one delivery running at once,
\* each reading, checking and then writing in a later step, a write for
\* accepted, picked or delivered that changes the stored status moves it one
\* stage on from what is stored at the write: a request checked against an
\* older status never puts an earlier status over a later one.
C29_WritesStepFromStoredStatus ==
  [][\A s \in Slots :
       (/\ reqs[s].pc = "status_write"
        /\ reqs'[s].pc = "idle"
        /\ reqs[s].status \in {"accepted", "picked", "delivered"}
        /\ deliveries'[reqs[s].id].status # deliveries[reqs[s].id].status)
       => /\ NextStage(deliveries[reqs[s].id].status,
                       deliveries'[reqs[s].id].status)
          /\ Stage(deliveries'[reqs[s].id].status)
               > Stage(deliveries[reqs[s].id].status)]_vars

\* C30: the body of a request cannot name who acts.  A review is persisted
\* with the authenticated actor as reviewerId and a delivery with the
\* authenticated actor as senderId, whatever reviewerId or senderId the body
\* carries, and a carrierId is written only by an accept, as the
\* authenticated actor's id.
C30_IdentityFromSession ==
  [][/\ (resp = NoResp /\ resp'.op = "review" /\ resp'.result = "Created")
          => /\ isAuthenticated(resp'.actor)
             /\ Len(reviews') = Len(reviews) + 1
             /\ reviews'[Len(reviews')].reviewerId = resp'.actor
     /\ (resp = NoResp /\ resp'.op = "create" /\ resp'.result = "Created")
          => /\ isAuthenticated(resp'.actor)
             /\ Len(deliveries') = Len(deliveries) + 1
             /\ deliveries'[Len(deliveries')].senderId = resp'.actor
     /\ \A id \in DOMAIN deliveries :
          deliveries'[id].carrierId # deliveries[id].carrierId
            => /\ resp'.op = "status"
               /\ resp'.id = id
               /\ resp'.status = "accepted"
               /\ isAuthenticated(resp'.actor)
               /\ deliveries'[id].carrierId = resp'.actor
     /\ (resp = NoResp /\ resp'.op = "status" /\ resp'.result = "OK"
         /\ resp'.status = "accepted")
          => deliveries'[resp'.id].carrierId = resp'.actor]_vars

\* A review persisted from a body that named somebody else as the reviewer.
C30_Witness ==
  /\ resp.op = "review"
  /\ resp.result = "Created"
  /\ ReviewBody(resp.id, resp.revieweeId, resp.rating).reviewerId # resp.actor
  /\ reviews[Len(reviews)].reviewerId = resp.actor
  /\ reviews[Len(reviews)].deliveryId = resp.id

====
